---------------------------- MODULE Spec2Model ----------------------------
(***************************************************************************)
(* The lobby relay server of src/server.py: the registry Lobby.lobbies,    *)
(* the Lobby objects with their ordered clients dict, and one ClientThread *)
(* per accepted socket.                                                    *)
(*                                                                         *)
(* Every statement group of the handlers is a function from a state record *)
(* to a state record.  Two specifications use the same functions:          *)
(*   Spec        a step ends before each write to the shared registry or   *)
(*               to a lobby's clients dict and after it; the threads       *)
(*               interleave freely between steps (threading.Thread, no     *)
(*               lock anywhere);                                           *)
(*   SerialSpec  a thread runs a whole handler (from recv() back to        *)
(*               recv(), or to the end of run) while the others wait in    *)
(*               recv(): the runs of Spec without overlapping handlers.    *)
(*   FairSpec    the steps of Spec, fewer lines, and the scheduler's       *)
(*               fairness: a thread inside a handler runs on.              *)
(*   ReaderSpec  the NewlineReceiver of one socket on its own: the bytes   *)
(*               of a stream arrive in chunks and the reader is called     *)
(*               again and again.  Under Spec and SerialSpec recv()        *)
(*               delivers whole lines and the reader stays as it is.       *)
(* A loop that sends a frame to the lobby's members is one step.           *)
(* The clients send the lines of the protocol, a line with an unknown or   *)
(* missing action, and a line that is no JSON text; identify always        *)
(* carries a name and a game_version, both strings.                        *)
(***************************************************************************)
EXTENDS Integers, Sequences, FiniteSets, TLC

(* ------------------------------ bounds -------------------------------- *)
NConn == 3
MaxLobbies == 2
MaxRecv == 6
MaxSerialRecv == 7
(* The codes generate_code draws and the clients ask for, under Spec and   *)
(* under SerialSpec: the first ones of CodeSeq.                            *)
MaxCodes == 1
MaxSerialCodes == 2
(* The lines received, over all threads, under FairSpec. *)
MaxFairRecv == 4
(* The bytes of a stream under ReaderSpec. *)
MaxStream == 4

(* --------------------------- program constants ------------------------ *)
max_players == 2
NoRef == 0

(* Python's None, and str(): threading.Thread's name setter stores        *)
(* str(value), so the None assigned to self.name is kept as the text      *)
(* "None"; the exception text str(e) of a version is str(version).        *)
None == "<None>"
str(v) == IF v = None THEN "None" ELSE v
Conns == 1..NConn
NameSeq == <<"A", "B", "C">>
VersionSeq == <<"v1">>
CodeSeq == <<"ABCD", "WXYZ", "QRST">>
Range(q) == {q[i] : i \in 1..Len(q)}
Names == Range(NameSeq)
Versions == Range(VersionSeq)
Codes == Range(CodeSeq)
Moves == {"m5"}

VARIABLES pc, name, game_version, lobby, local, lobbies, heap, out, last, nrecv, reader

vars == <<pc, name, game_version, lobby, local, lobbies, heap, out, last, nrecv, reader>>

(* Where a thread waits for, or has given up, its socket. *)
Rest == {"recv", "closed", "crashed", "aborted"}
(* The peer has closed or reset the stream, the server side has not. *)
PeerGone == {"disc_mark", "disc_check", "disc_notify", "close", "aborted"}

(* ------------------------- messages and frames ------------------------ *)
IdentifyMsgs == {[action |-> "identify", name |-> n, game_version |-> v] : n \in Names, v \in Versions}
CreateMsgs == {[action |-> "create"]}
JoinMsgs == {[action |-> "join", code |-> k] : k \in Codes}
TurnMsgs == {[action |-> "turn", move |-> m] : m \in Moves}
            \cup {[action |-> "turn", move |-> m, name |-> n] : m \in Moves, n \in {"B"}}
OtherMsgs == {[action |-> "dance"], [move |-> "m5"]}
(* What recv() returns besides a message: None at the end of the stream,  *)
(* and a line that is no JSON text.                                       *)
EofLine == [stream |-> "end"]
GarbageLine == [stream |-> "garbage"]
NoLine == [stream |-> "none"]
Messages == IdentifyMsgs \cup CreateMsgs \cup JoinMsgs \cup TurnMsgs \cup OtherMsgs

ErrorFrame(type) == [action |-> "error", type |-> type]
MismatchFrame(v) == [action |-> "error", type |-> "mismatched_version", message |-> str(v)]
ConnectFrame(n) == [action |-> "connect", name |-> n]
DisconnectFrame(n) == [action |-> "disconnect", name |-> n]
CodeFrame(k) == [action |-> "code", code |-> k]
HiFrame(n, v) == [action |-> "message", message |-> <<"Hi", n, "using", v>>]
TurnFrame(d, n) == [f \in DOMAIN d \cup {"name"} |-> IF f = "name" THEN n ELSE d[f]]

(* ------------------------------ the state ----------------------------- *)
St == [pc |-> pc, name |-> name, game_version |-> game_version, lobby |-> lobby,
       local |-> local, lobbies |-> lobbies, heap |-> heap, out |-> out]

NoLocal == [code |-> None, lobby |-> NoRef]

(* A NewlineReceiver after __init__: buffer = b'', nothing read yet; wire   *)
(* holds the chunks that client_socket.recv will return, and closing how   *)
(* the stream ends after them.                                             *)
NewReader(wire, closing) ==
    [buffer |-> <<>>, wire |-> wire, closing |-> closing, sent |-> <<>>,
     records |-> <<>>, at |-> "call"]

Constructed ==
    /\ pc = [c \in Conns |-> "recv"]
    /\ name = [c \in Conns |-> str(None)]
    /\ game_version = [c \in Conns |-> None]
    /\ lobby = [c \in Conns |-> NoRef]
    /\ local = [c \in Conns |-> NoLocal]
    /\ lobbies = [k \in Codes |-> NoRef]
    /\ heap = <<>>
    /\ out = [c \in Conns |-> <<>>]
    /\ last = [conn |-> NoRef, line |-> NoLine]
    /\ nrecv = 0

Init ==
    /\ Constructed
    /\ reader = NewReader(<<>>, "close")

(* The frames of the step that begins: out holds what one step wrote. *)
Clear(s) == [s EXCEPT !.out = [c \in Conns |-> <<>>]]

Becomes(t) ==
    /\ pc' = t.pc
    /\ name' = t.name
    /\ game_version' = t.game_version
    /\ lobby' = t.lobby
    /\ local' = t.local
    /\ lobbies' = t.lobbies
    /\ heap' = t.heap
    /\ out' = t.out

(* ----------------------------- dict helpers --------------------------- *)
Keys(cl) == {cl[i].name : i \in 1..Len(cl)}
Index(cl, n) == CHOOSE i \in 1..Len(cl) : cl[i].name = n
Get(cl, n) == cl[Index(cl, n)].thread
(* clients[n] = v: an existing key keeps its place, a new key goes last. *)
Put(cl, n, v) ==
    IF n \in Keys(cl) THEN [cl EXCEPT ![Index(cl, n)].thread = v]
    ELSE Append(cl, [name |-> n, thread |-> v])
Active(cl) == {i \in 1..Len(cl) : cl[i].thread # NoRef}

(* ------------------------------- sending ------------------------------ *)
(* ClientThread.send_json of thread ct.  A closed socket object raises     *)
(* OSError; a socket whose peer is gone raises or not (brk).               *)
send_json(s, ct, d, brk) ==
    IF s.pc[ct] = "closed" \/ (s.pc[ct] \in PeerGone /\ brk)
    THEN [st |-> s, ok |-> FALSE]
    ELSE [st |-> [s EXCEPT !.out[ct] = Append(@, d)], ok |-> TRUE]

RECURSIVE MessageLoop(_, _, _, _, _, _)
MessageLoop(s, l, d, exclude, brk, i) ==
    IF i > Len(s.heap[l].clients) THEN [st |-> s, ok |-> TRUE]
    ELSE LET ct == s.heap[l].clients[i].thread IN
         IF ct \in exclude THEN MessageLoop(s, l, d, exclude, brk, i + 1)
         ELSE IF ct = NoRef THEN [st |-> s, ok |-> FALSE]
         ELSE LET r == send_json(s, ct, d, brk) IN
              IF r.ok THEN MessageLoop(r.st, l, d, exclude, brk, i + 1) ELSE r

(* Lobby.message *)
message(s, l, d, exclude, brk) == MessageLoop(s, l, d, exclude, brk, 1)

RECURSIVE DisconnectLoop(_, _, _, _, _)
DisconnectLoop(s, l, d, brk, i) ==
    IF i > Len(s.heap[l].clients) THEN [st |-> s, ok |-> TRUE]
    ELSE LET ct == s.heap[l].clients[i].thread IN
         IF ct = NoRef THEN DisconnectLoop(s, l, d, brk, i + 1)
         ELSE LET r == send_json(s, ct, d, brk) IN
              IF r.ok THEN DisconnectLoop(r.st, l, d, brk, i + 1) ELSE r

(* An exception no handler catches ends the thread: run is left without    *)
(* the disconnect logic and without close().                               *)
Raise(s, c) ==
    [s EXCEPT !.pc[c] = IF s.pc[c] \in PeerGone THEN "aborted" ELSE "crashed",
              !.local[c] = NoLocal]

Reply(s, c, d) == [send_json(s, c, d, FALSE).st EXCEPT !.pc[c] = "recv", !.local[c] = NoLocal]

(* ---------------------- ClientThread: the handlers -------------------- *)
action_identify(s, c, d) ==
    LET t == [s EXCEPT !.name[c] = str(d.name), !.game_version[c] = d.game_version]
    IN Reply(t, c, HiFrame(t.name[c], t.game_version[c]))

(* action_create up to generate_code's return of k, a code read as absent. *)
action_create(s, c, k) ==
    IF s.name[c] = None THEN Reply(s, c, ErrorFrame("unidentified"))
    ELSE [s EXCEPT !.pc[c] = "create_register", !.local[c] = [code |-> k, lobby |-> NoRef]]

(* Lobby.create: lobby = cls(code, version); cls.lobbies[code] = lobby *)
create_register(s, c) ==
    LET l == Len(s.heap) + 1
        new == [code |-> s.local[c].code, version |-> s.game_version[c], clients |-> <<>>]
    IN [s EXCEPT !.heap = Append(@, new),
                 !.lobbies[s.local[c].code] = l,
                 !.local[c].lobby = l,
                 !.pc[c] = "create_connect"]

(* Lobby.connect, first line: self.clients[client_thread.name] = client_thread *)
connect_insert(s, c, next) ==
    [s EXCEPT !.heap[s.local[c].lobby].clients = Put(@, s.name[c], c),
              !.pc[c] = next]

(* Lobby.connect, second line: self.message(connect); then Lobby.create's  *)
(* lobby.message(code); return lobby; self.lobby = lobby                   *)
create_notify(s, c, brk) ==
    LET r == message(s, s.local[c].lobby, ConnectFrame(s.name[c]), {}, brk)
        q == message(r.st, s.local[c].lobby, CodeFrame(s.local[c].code), {}, brk)
    IN IF ~r.ok THEN Raise(r.st, c)
       ELSE IF ~q.ok THEN Raise(q.st, c)
       ELSE [q.st EXCEPT !.lobby[c] = s.local[c].lobby, !.pc[c] = "recv",
                         !.local[c] = NoLocal]

(* action_join up to Lobby.join's test "code not in cls.lobbies" *)
action_join(s, c, d) ==
    IF s.name[c] = None THEN Reply(s, c, ErrorFrame("unidentified"))
    ELSE IF "code" \notin DOMAIN d THEN Raise(s, c)
    ELSE IF s.lobbies[d.code] = NoRef THEN Reply(s, c, ErrorFrame("lobby_doesnt_exist"))
    ELSE [s EXCEPT !.pc[c] = "join_get", !.local[c] = [code |-> d.code, lobby |-> NoRef]]

(* join_check with the joiner counted in the capacity test. *)
join_check_counting_self(s, c, l) ==
    LET cl == s.heap[l].clients
        n == s.name[c]
    IN IF n \in Keys(cl) /\ Get(cl, n) # NoRef THEN Reply(s, c, ErrorFrame("already_connected"))
       ELSE IF n \notin Keys(cl) /\ Len(cl) + 1 >= max_players
            THEN Reply(s, c, ErrorFrame("lobby_full"))
       ELSE [s EXCEPT !.local[c].lobby = l, !.pc[c] = "join_connect"]

(* join_check with the entry written before the outcome of the tests is    *)
(* acted on.                                                               *)
join_check_eager(s, c, l) ==
    LET cl == s.heap[l].clients
        n == s.name[c]
        ins == [s EXCEPT !.heap[l].clients = Put(@, n, c)]
    IN IF n \in Keys(cl) /\ Get(cl, n) # NoRef THEN Reply(ins, c, ErrorFrame("already_connected"))
       ELSE IF n \notin Keys(cl) /\ Len(cl) >= max_players
            THEN Reply(ins, c, ErrorFrame("lobby_full"))
       ELSE [s EXCEPT !.local[c].lobby = l, !.pc[c] = "join_connect"]

(* Lobby.join: the membership test and the capacity test on lobby l *)
join_check(s, c, l) ==
    LET cl == s.heap[l].clients
        n == s.name[c]
    IN IF n \in Keys(cl) /\ Get(cl, n) # NoRef THEN Reply(s, c, ErrorFrame("already_connected"))
       ELSE IF n \notin Keys(cl) /\ Len(cl) >= max_players
            THEN Reply(s, c, ErrorFrame("lobby_full"))
       ELSE [s EXCEPT !.local[c].lobby = l, !.pc[c] = "join_connect"]

(* Lobby.join: lobby = cls.lobbies[code] (KeyError when it went away), the *)
(* version test, and the tests of join_check                               *)
join_get(s, c) ==
    LET l == s.lobbies[s.local[c].code] IN
    IF l = NoRef THEN Raise(s, c)
    ELSE IF s.heap[l].version # s.game_version[c]
         THEN Reply(s, c, MismatchFrame(s.heap[l].version))
    ELSE join_check(s, c, l)

(* join_notify with the joiner left out of the connect broadcast. *)
join_notify_others(s, c, brk) ==
    LET r == message(s, s.local[c].lobby, ConnectFrame(s.name[c]), {c}, brk) IN
    IF r.ok THEN [r.st EXCEPT !.lobby[c] = s.local[c].lobby, !.pc[c] = "recv",
                              !.local[c] = NoLocal]
    ELSE Raise(r.st, c)

(* Lobby.connect's message, return lobby, self.lobby = lobby *)
join_notify(s, c, brk) ==
    LET r == message(s, s.local[c].lobby, ConnectFrame(s.name[c]), {}, brk) IN
    IF r.ok THEN [r.st EXCEPT !.lobby[c] = s.local[c].lobby, !.pc[c] = "recv",
                              !.local[c] = NoLocal]
    ELSE Raise(r.st, c)

action_turn(s, c, d, brk) ==
    IF s.name[c] = None THEN Reply(s, c, ErrorFrame("unidentified"))
    ELSE IF s.lobby[c] = NoRef THEN Reply(s, c, ErrorFrame("not_in_lobby"))
    ELSE LET r == message(s, s.lobby[c], TurnFrame(d, s.name[c]), {c}, brk) IN
         IF r.ok THEN [r.st EXCEPT !.pc[c] = "recv"] ELSE Raise(r.st, c)

handle_message(s, c, d, k, brk) ==
    IF "action" \notin DOMAIN d THEN Reply(s, c, ErrorFrame("unknown_action"))
    ELSE CASE d.action = "identify" -> action_identify(s, c, d)
           [] d.action = "create" -> action_create(s, c, k)
           [] d.action = "join" -> action_join(s, c, d)
           [] d.action = "turn" -> action_turn(s, c, d, brk)
           [] OTHER -> Reply(s, c, ErrorFrame("unknown_action"))

(* run: recv() returned None; "if self.lobby is not None" *)
end_of_stream(s, c) ==
    [s EXCEPT !.pc[c] = IF s.lobby[c] = NoRef THEN "close" ELSE "disc_mark"]

(* run: json.loads raises on a line that is no JSON text *)
decode_fault(s, c) == Raise(s, c)

(* Lobby.disconnect: self.clients[name] = None *)
disconnect_mark(s, c) ==
    [s EXCEPT !.heap[s.lobby[c]].clients = Put(@, s.name[c], NoRef),
              !.pc[c] = "disc_check"]

(* Lobby.disconnect: del self.lobbies[self.code] (KeyError when absent) *)
disconnect_del(s, c) ==
    LET k == s.heap[s.lobby[c]].code IN
    IF s.lobbies[k] = NoRef THEN Raise(s, c)
    ELSE [s EXCEPT !.lobbies[k] = NoRef, !.pc[c] = "disc_notify"]

(* disconnect_check without the removal. *)
disconnect_check_keep(s, c) == [s EXCEPT !.pc[c] = "disc_notify"]

(* Lobby.disconnect: if all([c is None for c in self.clients.values()]):   *)
(* the del of disconnect_del                                               *)
disconnect_check(s, c) ==
    IF Active(s.heap[s.lobby[c]].clients) = {} THEN disconnect_del(s, c)
    ELSE [s EXCEPT !.pc[c] = "disc_notify"]

(* Lobby.disconnect: the loop that sends the disconnect frame *)
disconnect_notify(s, c, brk) ==
    LET r == DisconnectLoop(s, s.lobby[c], DisconnectFrame(s.name[c]), brk, 1) IN
    IF r.ok THEN [r.st EXCEPT !.pc[c] = "close"] ELSE Raise(r.st, c)

(* run: self.client_socket.close() *)
close(s, c) == [s EXCEPT !.pc[c] = "closed"]

(* One step of thread c from where it stands inside a handler. *)
Step(s, c, brk) ==
    CASE s.pc[c] = "create_register" -> create_register(s, c)
      [] s.pc[c] = "create_connect" -> connect_insert(s, c, "create_notify")
      [] s.pc[c] = "create_notify" -> create_notify(s, c, brk)
      [] s.pc[c] = "join_get" -> join_get(s, c)
      [] s.pc[c] = "join_connect" -> connect_insert(s, c, "join_notify")
      [] s.pc[c] = "join_notify" -> join_notify(s, c, brk)
      [] s.pc[c] = "disc_mark" -> disconnect_mark(s, c)
      [] s.pc[c] = "disc_check" -> disconnect_check(s, c)
      [] s.pc[c] = "disc_notify" -> disconnect_notify(s, c, brk)
      [] s.pc[c] = "close" -> close(s, c)

(* The handler run to its end: back in recv(), or the thread over. *)
RECURSIVE Run(_, _, _)
Run(s, c, brk) == IF s.pc[c] \in Rest THEN s ELSE Run(Step(s, c, brk), c, brk)

(* ------------------------------ actions ------------------------------- *)
(* The clients' choices are taken up to renaming.  Threads still as        *)
(* __init__ left them are alike, and so are the names, versions and codes  *)
(* that no thread and no lobby holds: of each kind the first one stands    *)
(* for all.                                                                *)
Fresh(c) ==
    /\ pc[c] = "recv"
    /\ name[c] = str(None) /\ game_version[c] = None /\ lobby[c] = NoRef
HeldNames == {name[c] : c \in Conns} \cup UNION {Keys(heap[l].clients) : l \in 1..Len(heap)}
HeldVersions == {game_version[c] : c \in Conns} \cup {heap[l].version : l \in 1..Len(heap)}
HeldCodes == {local[c].code : c \in Conns} \cup {heap[l].code : l \in 1..Len(heap)}
UpToRenaming(q, held) == {q[i] : i \in {j \in 1..Len(q) : \A h \in 1..(j - 1) : q[h] \in held}}

(* Thread c is blocked in self.recv() and a line arrives (at most b lines  *)
(* arrive in a run).                                                       *)
Ready(c, b) ==
    /\ pc[c] = "recv"
    /\ nrecv < b
    /\ Fresh(c) => \A o \in 1..(c - 1) : ~Fresh(o)
Received(c, d) ==
    /\ last' = [conn |-> c, line |-> d]
    /\ nrecv' = nrecv + 1
    /\ UNCHANGED reader
CreatesInFlight == Cardinality({c \in Conns : pc[c] = "create_register"})
(* generate_code returns k: read as absent from the registry *)
FirstCodes(n) == {CodeSeq[i] : i \in 1..n}
CanCreate(c, k) ==
    name[c] # None =>
        /\ lobbies[k] = NoRef
        /\ k \in UpToRenaming(CodeSeq, HeldCodes)
        /\ Len(heap) + CreatesInFlight < MaxLobbies

Identify(c, b) ==
    /\ Ready(c, b)
    /\ \E d \in IdentifyMsgs :
          /\ d.name \in UpToRenaming(NameSeq, HeldNames)
          /\ d.game_version \in UpToRenaming(VersionSeq, HeldVersions)
          /\ Becomes(handle_message(Clear(St), c, d, None, FALSE))
          /\ Received(c, d)

Turn(c, b) ==
    /\ Ready(c, b)
    /\ \E d \in TurnMsgs, brk \in BOOLEAN :
          /\ Becomes(handle_message(Clear(St), c, d, None, brk))
          /\ Received(c, d)

Unknown(c, b) ==
    /\ Ready(c, b)
    /\ \E d \in OtherMsgs :
          /\ Becomes(handle_message(Clear(St), c, d, None, FALSE))
          /\ Received(c, d)

Garbage(c, b) ==
    /\ Ready(c, b)
    /\ Becomes(decode_fault(Clear(St), c))
    /\ Received(c, GarbageLine)

CreateBegin(c, b) ==
    /\ Ready(c, b)
    /\ \E d \in CreateMsgs, k \in FirstCodes(MaxCodes) :
          /\ CanCreate(c, k)
          /\ Becomes(handle_message(Clear(St), c, d, k, FALSE))
          /\ Received(c, d)

JoinBegin(c, b) ==
    /\ Ready(c, b)
    /\ \E d \in JoinMsgs :
          /\ d.code \in UpToRenaming(CodeSeq, HeldCodes) \cap FirstCodes(MaxCodes)
          /\ Becomes(handle_message(Clear(St), c, d, None, FALSE))
          /\ Received(c, d)

Eof(c, b) ==
    /\ Ready(c, b)
    /\ Becomes(end_of_stream(Clear(St), c))
    /\ Received(c, EofLine)

(* Thread c, inside a handler, runs its next statement group. *)
Proceed(c) ==
    /\ \E brk \in BOOLEAN : \E t \in {Step(Clear(St), c, brk)} : Becomes(t)
    /\ UNCHANGED <<last, nrecv, reader>>

CreateRegister(c) ==
    /\ pc[c] = "create_register"
    /\ Proceed(c)

CreateConnect(c) ==
    /\ pc[c] = "create_connect"
    /\ Proceed(c)

CreateNotify(c) ==
    /\ pc[c] = "create_notify"
    /\ Proceed(c)

JoinGet(c) ==
    /\ pc[c] = "join_get"
    /\ Proceed(c)

JoinConnect(c) ==
    /\ pc[c] = "join_connect"
    /\ Proceed(c)

JoinNotify(c) ==
    /\ pc[c] = "join_notify"
    /\ Proceed(c)

DisconnectMark(c) ==
    /\ pc[c] = "disc_mark"
    /\ Proceed(c)

DisconnectCheck(c) ==
    /\ pc[c] = "disc_check"
    /\ Proceed(c)

DisconnectNotify(c) ==
    /\ pc[c] = "disc_notify"
    /\ Proceed(c)

Close(c) ==
    /\ pc[c] = "close"
    /\ Proceed(c)

Next ==
    \E c \in Conns :
        \/ Identify(c, MaxRecv)
        \/ Turn(c, MaxRecv)
        \/ Unknown(c, MaxRecv)
        \/ Garbage(c, MaxRecv)
        \/ CreateBegin(c, MaxRecv)
        \/ JoinBegin(c, MaxRecv)
        \/ Eof(c, MaxRecv)
        \/ CreateRegister(c)
        \/ CreateConnect(c)
        \/ CreateNotify(c)
        \/ JoinGet(c)
        \/ JoinConnect(c)
        \/ JoinNotify(c)
        \/ DisconnectMark(c)
        \/ DisconnectCheck(c)
        \/ DisconnectNotify(c)
        \/ Close(c)

Spec == Init /\ [][Next]_vars

(* ------------------------ a scheduler that is fair -------------------- *)
(* Thread c is inside a handler or the disconnect logic: it is runnable,   *)
(* it waits for no input, and the operating system's scheduler runs it.    *)
ThreadStep(c) ==
    \/ CreateRegister(c)
    \/ CreateConnect(c)
    \/ CreateNotify(c)
    \/ JoinGet(c)
    \/ JoinConnect(c)
    \/ JoinNotify(c)
    \/ DisconnectMark(c)
    \/ DisconnectCheck(c)
    \/ DisconnectNotify(c)
    \/ Close(c)

FairNext ==
    \E c \in Conns :
        \/ Identify(c, MaxFairRecv)
        \/ Turn(c, MaxFairRecv)
        \/ Unknown(c, MaxFairRecv)
        \/ Garbage(c, MaxFairRecv)
        \/ CreateBegin(c, MaxFairRecv)
        \/ JoinBegin(c, MaxFairRecv)
        \/ Eof(c, MaxFairRecv)
        \/ CreateRegister(c)
        \/ CreateConnect(c)
        \/ CreateNotify(c)
        \/ JoinGet(c)
        \/ JoinConnect(c)
        \/ JoinNotify(c)
        \/ DisconnectMark(c)
        \/ DisconnectCheck(c)
        \/ DisconnectNotify(c)
        \/ Close(c)

FairSpec == Init /\ [][FairNext]_vars /\ \A c \in Conns : WF_vars(ThreadStep(c))

(* ----------------------- whole handlers, in turn ---------------------- *)
Create(c, b) ==
    /\ Ready(c, b)
    /\ \E d \in CreateMsgs, k \in FirstCodes(MaxSerialCodes), brk \in BOOLEAN :
          /\ CanCreate(c, k)
          /\ Becomes(Run(handle_message(Clear(St), c, d, k, brk), c, brk))
          /\ Received(c, d)

Join(c, b) ==
    /\ Ready(c, b)
    /\ \E d \in JoinMsgs, brk \in BOOLEAN :
          /\ d.code \in UpToRenaming(CodeSeq, HeldCodes) \cap FirstCodes(MaxSerialCodes)
          /\ Becomes(Run(handle_message(Clear(St), c, d, None, brk), c, brk))
          /\ Received(c, d)

Disconnect(c, b) ==
    /\ Ready(c, b)
    /\ \E brk \in BOOLEAN : Becomes(Run(end_of_stream(Clear(St), c), c, brk))
    /\ Received(c, EofLine)

SerialNext ==
    \E c \in Conns :
        \/ Identify(c, MaxSerialRecv)
        \/ Turn(c, MaxSerialRecv)
        \/ Unknown(c, MaxSerialRecv)
        \/ Garbage(c, MaxSerialRecv)
        \/ Create(c, MaxSerialRecv)
        \/ Join(c, MaxSerialRecv)
        \/ Disconnect(c, MaxSerialRecv)

SerialSpec == Init /\ [][SerialNext]_vars

(* -------------------------- NewlineReceiver --------------------------- *)
(* Bytes: the delimiter b'\n', the letter x, and 0xff, which no UTF-8 text *)
(* contains.                                                               *)
Newline == 10
LetterX == 120
ByteFF == 255
Bytes == {Newline, LetterX, ByteFF}
(* The byte strings of length n, and the ways a stream of at most n bytes  *)
(* arrives as non-empty chunks.                                            *)
ByteStrings(n) == [1..n -> Bytes]
RECURSIVE Wires(_)
Wires(n) ==
    {<<>>} \cup UNION {{<<ch>> \o w : ch \in ByteStrings(k), w \in Wires(n - k)} : k \in 1..n}

Find(b, x) == IF \E i \in 1..Len(b) : b[i] = x
              THEN CHOOSE i \in 1..Len(b) : b[i] = x /\ \A j \in 1..(i - 1) : b[j] # x
              ELSE 0
(* bytes.partition(delimiter): what precedes the first delimiter, and what *)
(* follows it.                                                             *)
partition(b) ==
    LET i == Find(b, Newline) IN
    IF i = 0 THEN [line |-> b, rest |-> <<>>]
    ELSE [line |-> SubSeq(b, 1, i - 1), rest |-> SubSeq(b, i + 1, Len(b))]
(* bytes.decode('utf-8'): the text of the bytes, or UnicodeDecodeError.    *)
Chr(x) == IF x = LetterX THEN "x" ELSE "\n"
decode(b) ==
    IF \E i \in 1..Len(b) : b[i] >= 128 THEN [ok |-> FALSE, text |-> <<>>]
    ELSE [ok |-> TRUE, text |-> [i \in 1..Len(b) |-> Chr(b[i])]]

ServerIdle == UNCHANGED <<pc, name, game_version, lobby, local, lobbies, heap, out, last, nrecv>>

(* __call__, the loop's body: no delimiter is buffered and recv returns a  *)
(* chunk.                                                                  *)
ReaderRecv ==
    /\ reader.at = "call"
    /\ Find(reader.buffer, Newline) = 0
    /\ reader.wire # <<>>
    /\ reader' = [reader EXCEPT !.buffer = @ \o Head(reader.wire),
                                !.sent = @ \o Head(reader.wire),
                                !.wire = Tail(@)]
    /\ ServerIdle

(* __call__, the loop's body: no delimiter is buffered and recv returns    *)
(* b'' or raises ConnectionResetError: return None.                        *)
ReaderEnd ==
    /\ reader.at = "call"
    /\ Find(reader.buffer, Newline) = 0
    /\ reader.wire = <<>>
    /\ reader.closing \in {"close", "reset"}
    /\ reader' = [reader EXCEPT !.at = "ended"]
    /\ ServerIdle

(* __call__ after the loop: partition, decode, return; the next call       *)
(* follows.                                                                *)
ReaderReturn ==
    /\ reader.at = "call"
    /\ Find(reader.buffer, Newline) # 0
    /\ LET p == partition(reader.buffer)
           t == decode(p.line)
       IN reader' = IF t.ok
                    THEN [reader EXCEPT !.buffer = p.rest, !.records = Append(@, t.text)]
                    ELSE [reader EXCEPT !.buffer = p.rest, !.at = "raised"]
    /\ ServerIdle

ReaderInit ==
    /\ Constructed
    /\ \E w \in Wires(MaxStream), e \in {"close", "reset"} : reader = NewReader(w, e)

ReaderNext == ReaderRecv \/ ReaderEnd \/ ReaderReturn

ReaderSpec == ReaderInit /\ [][ReaderNext]_vars

(* ------------------------------- claims ------------------------------- *)
Lobbies == 1..Len(heap)
(* The thread's handler still runs. *)
Live(c) == pc[c] \notin {"closed", "crashed", "aborted"}
Member(c, l) == \E i \in 1..Len(heap[l].clients) : heap[l].clients[i].thread = c
ActiveMembers(l) == {heap[l].clients[i].thread : i \in Active(heap[l].clients)}
Refers(c, l) == lobby[c] = l \/ Member(c, l)
LiveRef(l) == \E c \in Conns : Live(c) /\ Refers(c, l)
(* The thread has handled an identify: only action_identify assigns        *)
(* game_version.                                                           *)
Identified(c) == game_version[c] # None

(* C1: under every interleaving of the handlers, no lobby holds more than  *)
(* max_players (2) active, non-tombstoned, entries.                        *)
C1_AtMostTwoActive ==
    \A l \in Lobbies : Cardinality(Active(heap[l].clients)) <= max_players

(* C2: two distinct lobby objects with the same code never both have a     *)
(* live connection as member or as currentLobby, and a lobby that a live   *)
(* connection refers to is the registry's entry for its code.              *)
C2_CodeNotReassigned ==
    /\ \A l1, l2 \in Lobbies :
          l1 # l2 /\ heap[l1].code = heap[l2].code => ~(LiveRef(l1) /\ LiveRef(l2))
    /\ \A l \in Lobbies : LiveRef(l) => lobbies[heap[l].code] = l

(* The step is thread c taking line d from recv(). *)
Takes(c) == last'.conn = c /\ nrecv' = nrecv + 1
IsAction(d, a) == "action" \in DOMAIN d /\ d.action = a
Frames(q) == {q[i] : i \in 1..Len(q)}
Silent(cs) == \A b \in Conns \ cs : out'[b] = <<>>

(* C3: a turn of a thread in a lobby puts exactly one frame, the sent      *)
(* fields with name set to the sender's name, on the socket of every other *)
(* active member of the lobby, and none on any other socket.               *)
C3_TurnRelayed ==
    [][\A a \in Conns :
         (Takes(a) /\ IsAction(last'.line, "turn") /\ lobby[a] # NoRef) =>
            \A b \in Conns :
               out'[b] = IF b # a /\ b \in ActiveMembers(lobby[a])
                         THEN <<[f \in DOMAIN last'.line \cup {"name"} |->
                                   IF f = "name" THEN name[a] ELSE last'.line[f]]>>
                         ELSE <<>>]_vars

(* The lobby that x created and that holds x alone, x still connected, is  *)
(* joined by y under another name and with the same version.               *)
JoinsCreated(x, y, l) ==
    /\ Takes(y) /\ IsAction(last'.line, "join")
    /\ x # y /\ Live(x) /\ lobby[x] = l
    /\ lobbies[last'.line.code] = l
    /\ heap[l].clients = <<[name |-> name[x], thread |-> x]>>
    /\ name[y] # name[x]
    /\ game_version[y] = heap[l].version

(* C4 as stated: the join succeeds, x is sent a connect frame naming y and *)
(* y is sent a connect frame naming x.                                     *)
C4_EachToldOfTheOther ==
    [][\A x, y \in Conns : \A l \in Lobbies :
         JoinsCreated(x, y, l) =>
            /\ lobby'[y] = l
            /\ ConnectFrame(name[y]) \in Frames(out'[x])
            /\ ConnectFrame(name[x]) \in Frames(out'[y])]_vars

(* C4 amended: the join succeeds, and x and y are each sent exactly one    *)
(* frame, the connect frame naming the joiner y; nobody else is sent one.  *)
C4_BothToldOfTheJoiner ==
    [][\A x, y \in Conns : \A l \in Lobbies :
         JoinsCreated(x, y, l) =>
            /\ lobby'[y] = l /\ pc'[y] = "recv"
            /\ heap'[l].clients = Append(heap[l].clients, [name |-> name[y], thread |-> y])
            /\ out'[x] = <<ConnectFrame(name[y])>>
            /\ out'[y] = <<ConnectFrame(name[y])>>
            /\ Silent({x, y})]_vars

(* A join into the creator's lobby has just ended with both frames sent. *)
C4_Joined ==
    \E x, y \in Conns :
        /\ x # y /\ last.conn = y /\ IsAction(last.line, "join")
        /\ lobby[x] # NoRef /\ lobby[y] = lobby[x]
        /\ heap[lobby[x]].clients = <<[name |-> name[x], thread |-> x], [name |-> name[y], thread |-> y]>>
        /\ out[x] = <<ConnectFrame(name[y])>>
        /\ out[y] = <<ConnectFrame(name[y])>>

(* C5: the outcome of a join by an identified thread is decided by the     *)
(* registry, the version, the membership and the capacity, in this order.  *)
C5_JoinDecided ==
    [][\A c \in Conns :
         (Takes(c) /\ IsAction(last'.line, "join") /\ Identified(c)) =>
            LET l == lobbies[last'.line.code] IN
            IF l = NoRef THEN out'[c] = <<ErrorFrame("lobby_doesnt_exist")>>
            ELSE IF heap[l].version # game_version[c]
                 THEN out'[c] = <<[action |-> "error", type |-> "mismatched_version",
                                   message |-> str(heap[l].version)]>>
            ELSE IF \E i \in Active(heap[l].clients) : heap[l].clients[i].name = name[c]
                 THEN out'[c] = <<ErrorFrame("already_connected")>>
            ELSE IF name[c] \notin Keys(heap[l].clients) /\ Len(heap[l].clients) >= 2
                 THEN out'[c] = <<ErrorFrame("lobby_full")>>
            ELSE /\ Get(heap'[l].clients, name[c]) = c
                 /\ lobby'[c] = l]_vars

Shared == <<lobbies, heap, name, game_version, lobby>>
ErrorTypes == {"unidentified", "unknown_action", "not_in_lobby", "lobby_doesnt_exist",
               "mismatched_version", "already_connected", "lobby_full"}
ErrorSent == \E b \in Conns : \E i \in 1..Len(out'[b]) : out'[b][i].action = "error"

(* C6: a step that writes an error frame writes exactly one frame, to the  *)
(* requester; it and the request's steps before it leave the registry, the *)
(* lobbies and every thread's name, version and lobby as they were, and    *)
(* the requester goes back to recv().                                      *)
C6_ErrorsChangeNothing ==
    [][/\ ErrorSent =>
            \E c \in Conns :
               /\ \/ pc[c] = "recv" /\ Takes(c)
                  \/ pc[c] = "join_get"
               /\ pc'[c] = "recv"
               /\ \A o \in Conns \ {c} : pc'[o] = pc[o]
               /\ Len(out'[c]) = 1
               /\ out'[c][1].action = "error" /\ out'[c][1].type \in ErrorTypes
               /\ Silent({c})
               /\ UNCHANGED Shared
       /\ \A c \in Conns : (pc[c] = "recv" /\ pc'[c] = "join_get") => UNCHANGED Shared]_vars

(* A third name has just been refused by a registered lobby: lobby_full. *)
C6_FullRefused ==
    \E c \in Conns :
        /\ out[c] = <<ErrorFrame("lobby_full")>>
        /\ pc[c] = "recv"
        /\ \E l \in Lobbies : lobbies[heap[l].code] = l /\ ~Member(c, l)

(* C7: when the last active member of a registered lobby disconnects, the  *)
(* lobby leaves the registry in that step (generate_code may then return   *)
(* its code); a lobby with another active member stays registered.         *)
C7_LastOneOutRemoves ==
    [][\A c \in Conns :
         (Takes(c) /\ last'.line = EofLine) =>
            \A l \in Lobbies :
               lobbies[heap[l].code] = l =>
                  /\ ActiveMembers(l) = {c} => lobbies'[heap[l].code] = NoRef
                  /\ ActiveMembers(l) \ {c} # {} => lobbies'[heap[l].code] = l]_vars

(* C8: when the stream of a thread in a lobby ends, its entry becomes a    *)
(* tombstone, every remaining active member is sent exactly one disconnect *)
(* frame naming it, and nobody else is sent a frame.                       *)
C8_PeersToldOfDeparture ==
    [][\A c \in Conns :
         (Takes(c) /\ last'.line = EofLine /\ lobby[c] # NoRef) =>
            LET l == lobby[c] IN
            /\ \A i \in 1..Len(heap[l].clients) :
                  heap[l].clients[i].thread = c => heap'[l].clients[i].thread = NoRef
            /\ \A b \in Conns :
                  out'[b] = IF b # c /\ b \in ActiveMembers(l)
                            THEN <<DisconnectFrame(name[c])>> ELSE <<>>]_vars

(* C9: a thread in a lobby whose stream ended, by end-of-stream or by a    *)
(* line that does not decode, runs the lobby's disconnect and only then    *)
(* closes its socket.                                                      *)
C9_DisconnectThenClose ==
    \A c \in Conns :
        (last.conn = c /\ last.line \in {EofLine, GarbageLine} /\ lobby[c] # NoRef) =>
            \/ pc[c] \in {"disc_mark", "disc_check", "disc_notify"}
            \/ /\ pc[c] \in {"close", "closed"}
               /\ name[c] \in Keys(heap[lobby[c]].clients)
               /\ Get(heap[lobby[c]].clients, name[c]) # c

KnownActions == {"identify", "create", "join", "turn"}
CreatePcs == {"create_register", "create_connect", "create_notify"}
(* C10: create, join and turn before identify are answered unidentified;   *)
(* turn without a lobby not_in_lobby; a missing or unknown action          *)
(* unknown_action; and create of an identified thread runs to its end and  *)
(* leaves the thread with the lobby it made as its lobby.                  *)
C10_Preconditions ==
    [][\A c \in Conns :
         /\ (Takes(c) /\ "stream" \notin DOMAIN last'.line) =>
               LET d == last'.line IN
               /\ ("action" \notin DOMAIN d \/ d.action \notin KnownActions) =>
                     out'[c] = <<ErrorFrame("unknown_action")>> /\ pc'[c] = "recv"
               /\ ("action" \in DOMAIN d /\ d.action \in {"create", "join", "turn"}
                                        /\ ~Identified(c)) =>
                     out'[c] = <<ErrorFrame("unidentified")>> /\ pc'[c] = "recv"
               /\ (IsAction(d, "turn") /\ Identified(c) /\ lobby[c] = NoRef) =>
                     out'[c] = <<ErrorFrame("not_in_lobby")>> /\ pc'[c] = "recv"
               /\ (IsAction(d, "create") /\ Identified(c)) =>
                     \/ pc'[c] \in CreatePcs
                     \/ /\ pc'[c] = "recv"
                        /\ lobby'[c] \in (1..Len(heap')) \ Lobbies
         /\ (pc[c] \in CreatePcs /\ pc'[c] # pc[c]) =>
               \/ pc'[c] \in CreatePcs
               \/ /\ pc'[c] = "recv"
                  /\ lobby'[c] = local[c].lobby]_vars

Registered(l) == lobbies[heap[l].code] = l

C12_NameSetOnce ==
    [][\A c \in Conns : Identified(c) => name'[c] = name[c]]_vars

(* C13: a thread that is in a lobby stays in that lobby: no step sets its  *)
(* lobby to None or to another lobby.                                      *)
C13_LobbyKept ==
    [][\A c \in Conns : lobby[c] # NoRef => lobby'[c] = lobby[c]]_vars

EntriesOf(b, l) == {i \in Active(heap[l].clients) : heap[l].clients[i].thread = b}

(* C14: in every lobby that has active members, all of them waiting in    *)
(* recv(), tombstones or not, Lobby.message with any exclude set completes *)
(* and writes the payload exactly once for each active entry of a thread   *)
(* not excluded, and to nobody else.                                       *)
C14_BroadcastDelivers ==
    \A l \in Lobbies : \A ex \in SUBSET Conns :
        (ActiveMembers(l) # {} /\ \A b \in ActiveMembers(l) : pc[b] = "recv") =>
            LET d == CodeFrame(heap[l].code)
                r == message(Clear(St), l, d, ex, FALSE)
            IN /\ r.ok
               /\ \A b \in Conns :
                     r.st.out[b] = IF b \in ex THEN <<>>
                                   ELSE [i \in 1..Cardinality(EntriesOf(b, l)) |-> d]

(* Thread c runs the tests of Lobby.join on the registered lobby l, with   *)
(* the lobby's version and a name that has no active entry in l.           *)
JoinTested(c, l) ==
    /\ pc[c] = "join_get" /\ pc'[c] # "join_get"
    /\ l = lobbies[local[c].code]
    /\ heap[l].version = game_version[c]
    /\ ~\E i \in Active(heap[l].clients) : heap[l].clients[i].name = name[c]
Tombstones(l) == {i \in 1..Len(heap[l].clients) : heap[l].clients[i].thread = NoRef}

(* C15 as stated: such a join is answered lobby_full only if the lobby has *)
(* no tombstone and holds 2 entries, and is not refused when the lobby has *)
(* a tombstone.                                                            *)
C15_FullOnlyWithoutTombstone ==
    [][\A c \in Conns : \A l \in Lobbies :
         JoinTested(c, l) =>
            /\ out'[c] = <<ErrorFrame("lobby_full")>> =>
                  Tombstones(l) = {} /\ Len(heap[l].clients) >= 2
            /\ Tombstones(l) # {} => pc'[c] = "join_connect"]_vars

(* C15 amended: such a join is answered lobby_full exactly when the name   *)
(* is no key of the lobby and the lobby holds 2 or more entries, the       *)
(* tombstones counted; otherwise it goes on to the insertion.              *)
C15_FullIffNewNameAndTwoEntries ==
    [][\A c \in Conns : \A l \in Lobbies :
         JoinTested(c, l) =>
            IF name[c] \notin Keys(heap[l].clients) /\ Len(heap[l].clients) >= 2
            THEN out'[c] = <<ErrorFrame("lobby_full")>> /\ pc'[c] = "recv"
            ELSE out'[c] = <<>> /\ pc'[c] = "join_connect"]_vars

(* A new name has just been refused by a lobby of one active entry and one *)
(* tombstone.                                                              *)
C15_FullBesideTombstone ==
    \E c \in Conns : \E l \in Lobbies :
        /\ pc[c] = "recv" /\ out[c] = <<ErrorFrame("lobby_full")>>
        /\ last.conn = c /\ IsAction(last.line, "join")
        /\ Registered(l) /\ heap[l].code = last.line.code
        /\ Cardinality(Tombstones(l)) = 1 /\ Cardinality(Active(heap[l].clients)) = 1
        /\ name[c] \notin Keys(heap[l].clients)

(* The newline-terminated records of a byte string, in order.              *)
RECURSIVE RecordsOf(_)
RecordsOf(b) ==
    IF \A i \in 1..Len(b) : b[i] # Newline THEN <<>>
    ELSE LET i == CHOOSE k \in 1..Len(b) : b[k] = Newline /\ \A j \in 1..(k - 1) : b[j] # Newline
         IN <<SubSeq(b, 1, i - 1)>> \o RecordsOf(SubSeq(b, i + 1, Len(b)))
TextOf(b) == [i \in 1..Len(b) |-> IF b[i] = LetterX THEN "x" ELSE "?"]
IsPrefix(s, t) == Len(s) <= Len(t) /\ SubSeq(t, 1, Len(s)) = s
Returned(r) == [i \in 1..Len(RecordsOf(r.sent)) |-> TextOf(RecordsOf(r.sent)[i])]

(* C16: for every stream and chunking, each step of the line reader reads  *)
(* from the socket only while no complete record is buffered, never ends   *)
(* in an error, has returned so far the first records of the stream, in    *)
(* order, each once and without its delimiter, and returns the             *)
(* end-of-stream signal only after all the records of the stream.          *)
C16_ReaderYieldsRecords ==
    [][/\ reader'.wire # reader.wire => \A i \in 1..Len(reader.buffer) : reader.buffer[i] # Newline
       /\ reader'.at # "raised"
       /\ IsPrefix(reader'.records, Returned(reader'))
       /\ reader'.at = "ended" =>
              /\ reader'.records = Returned(reader')
              /\ reader'.wire = <<>>]_vars

(* No other lobby object was ever made with the code of l. *)
SoleBearer(l) == \A m \in Lobbies : m # l => heap[m].code # heap[l].code

(* C17: under every interleaving of joins and disconnects on a lobby, made *)
(* by an identified thread and the only one of its code, whenever a live   *)
(* identified connection is an active member of the lobby, the lobby is    *)
(* the registry's entry for its code.                                      *)
C17_MemberLobbyRegistered ==
    \A l \in Lobbies : (SoleBearer(l) /\ heap[l].version # None) =>
        \A c \in ActiveMembers(l) : (Live(c) /\ Identified(c)) => Registered(l)

(* C18: in every reachable state each entry that is no tombstone, stored   *)
(* under name n in a lobby l that an identified thread made, refers to a   *)
(* thread whose handler still runs, whose name is n and whose lobby is l;  *)
(* and a thread has at most one such entry over all lobbies.               *)
C18_MembershipConsistent ==
    /\ \A l \in Lobbies : \A i \in Active(heap[l].clients) :
          LET e == heap[l].clients[i]
          IN heap[l].version # None =>
                Live(e.thread) /\ name[e.thread] = e.name /\ lobby[e.thread] = l
    /\ \A c \in Conns : \A l, m \in Lobbies :
          (heap[l].version # None /\ heap[m].version # None) =>
             \A i \in EntriesOf(c, l) : \A j \in EntriesOf(c, m) : l = m /\ i = j

(* recv() has returned None on the thread, the disconnect logic has run    *)
(* and the socket is closed.                                               *)
Terminated(c) == pc[c] = "closed"
RegistryEmpty == \A k \in Codes : lobbies[k] = NoRef
(* Every thread that took part is terminated, and every lobby was made by  *)
(* an identified thread.                                                   *)
AllTerminated ==
    /\ \A c \in Conns : Fresh(c) \/ Terminated(c)
    /\ \A l \in Lobbies : heap[l].version # None

(* C19: under every interleaving and a fair scheduler, if every connection *)
(* that took part reaches the end of its stream and of its disconnect      *)
(* logic, then from some point on the registry is empty for ever.          *)
C19_RegistryDrains == <>[]AllTerminated => <>[]RegistryEmpty

(* Thread c is at the test of Lobby.disconnect, in a lobby of two entries  *)
(* that an identified thread made, both entries are tombstones, and the    *)
(* other member b is in its own disconnect or past it.                     *)
BothLeaving(c, b) ==
    /\ b # c /\ pc[c] = "disc_check" /\ lobby[b] = lobby[c]
    /\ pc[b] \in {"disc_check", "disc_notify", "close", "closed"}
    /\ heap[lobby[c]].version # None
    /\ Len(heap[lobby[c]].clients) = 2 /\ Active(heap[lobby[c]].clients) = {}
    /\ \E i, j \in 1..2 : /\ heap[lobby[c]].clients[i].name = name[c]
                          /\ heap[lobby[c]].clients[j].name = name[b] /\ i # j

(* C20: when the last two members of a lobby disconnect concurrently, the  *)
(* removal step of either does not fault, leaves the lobby out of the      *)
(* registry, and changes no registry entry but the lobby's own.            *)
C20_RemovedOnce ==
    [][\A c, b \in Conns :
         (BothLeaving(c, b) /\ pc'[c] # "disc_check") =>
            /\ pc'[c] = "disc_notify"
            /\ lobbies'[heap[lobby[c]].code] # lobby[c]
            /\ \A k \in Codes : lobbies'[k] # lobbies[k] => lobbies[k] = lobby[c]]_vars
==========================================================================
